---- MODULE Spec2Model ----
(***************************************************************************)
(* A model of the iFOD2 streamline propagator                              *)
(* (src/src/dwi/tractography/iFOD2.h): init(), next(), rand_path_prob(),   *)
(* get_path() and FOD().                                                   *)
(*                                                                         *)
(* Numbers.  value_type (float) is modelled in fixed point.  Lengths and   *)
(* the components of unit vectors are integers in units of 1/Scale, angles *)
(* are radians in units of 1/Scale, amplitudes are integers in units of    *)
(* one tenth (the amplitude 1.0 is 10), so that a product of num_samples   *)
(* amplitudes and threshold^num_samples carry the same scale.  NaN and     *)
(* +infinity are two sentinels outside the finite range; every comparison  *)
(* with NaN is false, as in IEEE arithmetic.                               *)
(*                                                                         *)
(* Geometry.  The model is planar: a Point is [x, y].  init() draws among  *)
(* the four axis directions; the cone of rand_dir() has a half angle of a  *)
(* quarter turn and rand_dir() returns the direction itself or the         *)
(* direction a quarter turn to either side of it.                          *)
(*                                                                         *)
(* The module also models the command warpcorrect (src/cmd/warpcorrect.cpp):*)
(* BoundsCheck and run().  The components of its vectors are integers, NaN  *)
(* being the same sentinel.                                                *)
(***************************************************************************)
EXTENDS Integers, Sequences, FiniteSets

\* ------------------------------------------------------------------ bounds
MaxSamples == 2         \* S.num_samples ranges over 1..MaxSamples
MaxTrials == 2          \* S.max_trials of the general configurations
UniformDen == 3         \* rng.uniform() ranges over {0/U, ..., (U-1)/U}
MaxSteps == 2           \* next() is called while num_sample_runs < MaxSteps
MaxRejected == 1        \* rejected trials before an accepted one that are told apart
MaxVoxels == 2          \* warpcorrect: the voxels of the input warp
MaxThreads == 2         \* warpcorrect: the threads of the ThreadedLoop

\* ------------------------------------------------------- program constants
ProbeCount == 100       \* iFOD2.h:111  for (int n = 0; n < 100; n++)
ExtendedTrials == 10000 \* iFOD2.h:123  max_val_actual > prob_threshold ? 10000 : ...
DefaultMaxTrials == 100 \* iFOD2.h:46   max_trials (100)
DummyPrecisionInv == 100000  \* warpcorrect.cpp:26  1 / NumTraits<float>::dummy_precision()

\* ---------------------------------------------------------------- numbers
Scale == 100
Pi == 314
HalfPi == 157
NaN == -1000000
Inf == 1000000

isnan(x) == x = NaN
finite(x) == x # NaN /\ x # Inf
Gt(a, b) == a # NaN /\ b # NaN /\ a > b
Lt(a, b) == a # NaN /\ b # NaN /\ a < b

\* a * b on value_type: NaN propagates, the result saturates at +infinity
Mul(a, b) ==
  IF a = NaN \/ b = NaN THEN NaN
  ELSE IF a = Inf \/ b = Inf THEN (IF a = 0 \/ b = 0 THEN NaN ELSE Inf)
  ELSE IF a * b >= Inf THEN Inf ELSE a * b

\* Math::pow (val, n) for a whole n >= 0
RECURSIVE pow(_, _)
pow(val, n) == IF n = 0 THEN 1 ELSE Mul(val, pow(val, n - 1))

\* MAX (a, b): ((a) > (b) ? (a) : (b))
MAX(a, b) == IF Gt(a, b) THEN a ELSE b

\* the multiplication of line 121 left out
TimesOne(x) == x

\* max_val *= 1.5
TimesOneAndHalf(x) == IF finite(x) THEN (3 * x) \div 2 ELSE x

\* rng.uniform() < val/max_val, the draw being k/UniformDen
UniformLess(k, val, max_val) ==
  IF val = NaN \/ max_val = NaN THEN FALSE
  ELSE IF max_val = Inf THEN (val # Inf /\ k < 0)
  ELSE IF val = Inf THEN TRUE
  ELSE IF max_val = 0 THEN val > 0
  ELSE IF max_val > 0 THEN k * max_val < val * UniformDen
  ELSE k * max_val > val * UniformDen

\* --------------------------------------------------------------- geometry
Pt(x, y) == [x |-> x, y |-> y]
Add(a, b) == Pt(a.x + b.x, a.y + b.y)
Sub(a, b) == Pt(a.x - b.x, a.y - b.y)
\* c * v, c in units of 1/Scale
Scl(c, v) == Pt((c * v.x) \div Scale, (c * v.y) \div Scale)
dot(a, b) == (a.x * b.x + a.y * b.y) \div Scale

\* the largest r in lo..hi with r * r <= s, by bisection
RECURSIVE SqrtIn(_, _, _)
SqrtIn(s, lo, hi) ==
  IF lo >= hi THEN lo
  ELSE LET mid == (lo + hi + 1) \div 2
       IN IF mid * mid <= s THEN SqrtIn(s, mid, hi) ELSE SqrtIn(s, lo, mid - 1)

norm(v) == SqrtIn(v.x * v.x + v.y * v.y, 0, 40000)
normalise(v) ==
  LET l == norm(v)
  IN IF l = 0 THEN v ELSE Pt((v.x * Scale) \div l, (v.y * Scale) \div l)

\* Math::sin, Math::cos on [0, Pi] (Bhaskara's rational approximation,
\* exact at 0, Pi/2 and Pi) and Math::acos as the inverse of cos
sin(a) == (16 * a * (Pi - a) * Scale) \div (5 * Pi * Pi - 4 * a * (Pi - a))
cos(a) == IF a <= HalfPi THEN sin(HalfPi - a) ELSE 0 - sin(a - HalfPi)

\* the least a in lo..hi with cos(a) <= c, by bisection (cos decreases)
RECURSIVE AcosIn(_, _, _)
AcosIn(c, lo, hi) ==
  IF lo >= hi THEN lo
  ELSE LET mid == (lo + hi) \div 2
       IN IF cos(mid) <= c THEN AcosIn(c, lo, mid) ELSE AcosIn(c, mid + 1, hi)

acos(c) == AcosIn(c, 0, Pi)

East == Pt(Scale, 0)
North == Pt(0, Scale)
West == Pt(0 - Scale, 0)
South == Pt(0, 0 - Scale)
UnitDirs == {East, North, West, South}
NoDir == Pt(0, 0)

\* rand_dir (d): the directions of the cone around d
Turns == {-1, 0, 1}
rand_dir(d, k) ==
  IF k = 0 THEN d
  ELSE IF k = 1 THEN Pt(0 - d.y, d.x)
  ELSE Pt(d.y, 0 - d.x)

\* ------------------------------------------------------------------ field
\* The field of a run: "bundle" is a 3 x 3 block of voxels of side Scale, with
\* no data outside it and one masked voxel; "flat" has the amplitude 1.0 in
\* every direction everywhere.  A voxel holds the coefficients of
\* c0 + cx * dx^2 + cy * dy^2, the expansion of degree 2 in the plane.
NoData == [ok |-> FALSE, c0 |-> 0, cx |-> 0, cy |-> 0]
Coef(c0, cx, cy) == [ok |-> TRUE, c0 |-> c0, cx |-> cx, cy |-> cy]

BundleRows ==
  << << NoData,         Coef(0, 8, 2),  Coef(0, 8, 2)  >>,
     << Coef(0, 12, 2), Coef(0, 12, 4), Coef(0, 16, 8) >>,
     << Coef(0, 6, 8),  Coef(0, 2, 6),  Coef(0, 2, 12) >> >>

\* get_data (position): the coefficients at the voxel holding position
get_data(S, position) ==
  LET cx == position.x \div Scale
      cy == position.y \div Scale
  IN IF S.field = "flat" THEN Coef(10, 0, 0)
     ELSE IF cx \in 0..2 /\ cy \in 0..2 THEN BundleRows[cy + 1][cx + 1]
     ELSE NoData

\* FOD (direction): the series of the fetched coefficients at direction; an
\* invalid direction (a default-constructed Point) gives NaN
FODdir(values, direction) ==
  IF direction = NoDir THEN NaN
  ELSE values.c0
       + (values.cx * direction.x * direction.x
          + values.cy * direction.y * direction.y) \div (Scale * Scale)

\* FOD (position, direction)
FOD(S, position, direction) ==
  LET values == get_data(S, position)
  IN IF ~values.ok THEN NaN ELSE FODdir(values, direction)

\* ------------------------------------------------------------- get_path
\* Every write of get_path through the two pointers, in order: entry i of
\* the two sequences is what the call writes at index i - 1 of positions[]
\* and of tangents[].
PathLoopBound(S) == S.num_samples

get_path(S, pos, dir, k) ==
  LET end_dir == rand_dir(dir, k)
      cos_theta == IF dot(end_dir, dir) < Scale THEN dot(end_dir, dir) ELSE Scale
      theta == acos(cos_theta)
      n == S.num_samples
  IN IF theta # 0
     THEN LET curv == normalise(Sub(end_dir, Scl(cos_theta, dir)))
              R == (S.step_size * Scale) \div theta
              P(i) == IF i < n
                      THEN LET a == (theta * i) \div n
                           IN Add(pos, Scl(R, Add(Scl(sin(a), dir),
                                                  Scl(Scale - cos(a), curv))))
                      ELSE Add(pos, Scl(R, Add(Scl(sin(theta), dir),
                                               Scl(Scale - cos_theta, curv))))
              T(i) == IF i < n
                      THEN LET a == (theta * i) \div n
                           IN Add(Scl(cos(a), dir), Scl(sin(a), curv))
                      ELSE end_dir
          IN [positions |-> [i \in 1..n |-> P(i)],
              tangents  |-> [i \in 1..n |-> T(i)]]
     ELSE \* straight on: for (i = 0; i <= S.num_samples; ++i)
          LET last == PathLoopBound(S) + 1
              f(i) == i * (S.step_size \div n)
          IN [positions |-> [i \in 1..last |-> Add(pos, Scl(f(i), dir))],
              tangents  |-> [i \in 1..last |-> dir]]

\* --------------------------------------------------------- rand_path_prob
\* The two arrays of S.num_samples elements after get_path has returned.  A
\* write past their end is undefined behaviour; what it does is fixed by the
\* layout of the frame in the build:
\*   "spare"  the element past the end lies in unused space,
\*   "pos0"   tangents[num_samples] overlays positions[0],
\*   "tan0"   positions[num_samples] overlays tangents[0].
Layouts == {"spare", "pos0", "tan0"}

Buffers(S, w) ==
  LET n == S.num_samples
      over == Len(w.positions) > n
  IN [positions |-> [i \in 1..n |->
                       IF over /\ S.layout = "pos0" /\ i = 1
                       THEN w.tangents[n + 1] ELSE w.positions[i]],
      tangents  |-> [i \in 1..n |->
                       IF over /\ S.layout = "tan0" /\ i = 1
                       THEN w.positions[n + 1] ELSE w.tangents[i]]]

\* line 174 with <= for <
BelowOrAtThreshold(S, fod_amp) ==
  isnan(fod_amp) \/ fod_amp <= S.threshold

BelowThreshold(S, fod_amp) == isnan(fod_amp) \/ Lt(fod_amp, S.threshold)

\* the loop of rand_path_prob from sample i (1-based) on
RECURSIVE PathProb(_, _, _, _)
PathProb(S, b, i, prob) ==
  IF i > S.num_samples THEN prob
  ELSE LET fod_amp == FOD(S, b.positions[i], b.tangents[i])
       IN IF BelowThreshold(S, fod_amp) THEN NaN
          ELSE PathProb(S, b, i + 1, Mul(prob, fod_amp))

LastSample(S) == S.num_samples

\* rand_path_prob (next_pos, next_dir) for the draw k of rand_dir: the value
\* returned, what next_pos and next_dir are set to when it is not NaN, and
\* the number of elements get_path wrote into each array
rand_path_prob(S, pos, dir, k) ==
  LET w == get_path(S, pos, dir, k)
      b == Buffers(S, w)
  IN [val      |-> PathProb(S, b, 1, 1),
      next_pos |-> b.positions[LastSample(S)],
      next_dir |-> b.tangents[LastSample(S)],
      written  |-> Len(w.positions)]

\* a pass of a loop of next(): the path of rand_path_prob for the draw k, and
\* lines 133-134, dir = next_dir; dir.normalise(), should the pass accept it
Candidate(S, pos, dir, k) ==
  LET c == rand_path_prob(S, pos, dir, k)
  IN [val |-> c.val, next_pos |-> c.next_pos, next_dir |-> c.next_dir,
      written |-> c.written, new_dir |-> normalise(c.next_dir)]

\* ---------------------------------------------------------------- state
VARIABLES
  S,                \* the Shared of the run (never written after construction)
  pos, dir,         \* MethodBase: the current position and direction
  prev_prob_val,    \* iFOD2::prev_prob_val
  mean_sample_num,  \* iFOD2::mean_sample_num
  num_sample_runs,  \* iFOD2::num_sample_runs
  call,             \* the last call that returned: "none", "init" or "next"
  ret,              \* what it returned
  line,             \* the line of iFOD2.h of the return statement it took
  terminated,       \* some call has returned false
  draws,            \* init(): the random directions drawn by the last call
  earlier,          \* init(): a direction drawn before the last one (or NoDir)
  fod_evals,        \* init(): its evaluations of FOD (dir)
  probes,           \* next(): the paths evaluated by the loop of lines 111-115
  max_val_actual,   \* next(): the locals of the last call when it returned
  max_val,
  nmax,
  n,                \* next(): the passes of the loop of lines 125-141 begun
  val,              \* next(): the val of the accepted path (NaN when none)
  written,          \* next(): the most elements a get_path of lines 111-115 wrote
  twin,             \* a second iFOD2 given the same calls and the same draws
                    \* as the first (NoTwin in the runs of one propagator)
  \* ---- warpcorrect
  warp,             \* the run: input image, marker (oob_vector), precision, threads
  output,           \* the output image: voxel -> vector (Unwritten before)
  count,            \* run(): size_t count, the counter of every BoundsCheck
  functors,         \* the BoundsCheck objects: 0 is func, t >= 1 the copy of thread t
  todo,             \* the voxels the ThreadedLoop has not handed out yet
  visits,           \* voxel -> the calls of operator() made on it
  replaced,         \* the voxels on which lines 65-67 ran
  loaded,           \* ~BoundsCheck: the counter read by counter += count
  rpc,              \* run(): "idle", "start", "loop", "joined", "report", "done"
  warned            \* the WARN of line 116 was issued

prop_vars == << S, pos, dir, prev_prob_val, mean_sample_num, num_sample_runs,
                call, ret, line, terminated, draws, earlier, fod_evals, probes,
                max_val_actual, max_val, nmax, n, val, written, twin >>

warp_vars == << warp, output, count, functors, todo, visits, replaced, loaded,
                rpc, warned >>

vars == << prop_vars, warp_vars >>

\* the members of the first iFOD2, and what the last next() left in the stack
\* slot of its local max_val_actual
Self ==
  [pos |-> pos, dir |-> dir, prev_prob_val |-> prev_prob_val,
   mean_sample_num |-> mean_sample_num, num_sample_runs |-> num_sample_runs,
   max_val_actual |-> max_val_actual]

NoTwin == [pos |-> NoDir]

\* Shared::Shared: prob_threshold = Math::pow (threshold, num_samples)
Shared(num_samples, max_trials, threshold, init_threshold, init_dir, field, layout) ==
  [num_samples    |-> num_samples,
   max_trials     |-> max_trials,
   threshold      |-> threshold,
   init_threshold |-> init_threshold,
   init_dir       |-> init_dir,
   step_size      |-> 79,
   field          |-> field,
   layout         |-> layout,
   prob_threshold |-> pow(threshold, num_samples)]

\* the configurations of the general runs and of the flat-field scenario
Configs ==
  { Shared(ns, MaxTrials, 6, it, id, "bundle", lay) :
      ns \in 1..MaxSamples, it \in {2, 8}, id \in {NoDir, East, North},
      lay \in Layouts }

FlatConfigs ==
  { Shared(1, DefaultMaxTrials, 6, 8, id, "flat", lay) :
      id \in {NoDir, East}, lay \in Layouts }

\* the seed points: the middle of the block, and a point outside it
Seeds == { Pt(150, 150), Pt(-50, 150) }

\* prev_prob_val is not set by the constructor: it holds any value
Unset == { NaN, 4, Inf }

\* iFOD2::iFOD2, and the seed point set by the caller
InitWith(configs) ==
  /\ S \in configs
  /\ pos \in Seeds
  /\ dir = NoDir
  /\ prev_prob_val \in Unset
  /\ mean_sample_num = 0
  /\ num_sample_runs = 0
  /\ call = "none"
  /\ ret = FALSE
  /\ line = 0
  /\ terminated = FALSE
  /\ draws = 0
  /\ earlier = NoDir
  /\ fod_evals = 0
  /\ probes = 0
  /\ max_val_actual = 0
  /\ max_val = 0
  /\ nmax = 0
  /\ n = 0
  /\ val = NaN
  /\ written = 0

\* no run of warpcorrect
NoWarp ==
  /\ warp = [nthreads |-> 0]
  /\ output = << >>
  /\ count = 0
  /\ functors = << >>
  /\ todo = {}
  /\ visits = << >>
  /\ replaced = {}
  /\ loaded = 0
  /\ rpc = "idle"
  /\ warned = FALSE

Init == InitWith(Configs) /\ twin = NoTwin /\ NoWarp
InitFlat == InitWith(FlatConfigs) /\ twin = NoTwin /\ NoWarp

\* a second iFOD2, used for earlier streamlines, placed at the same seed point
\* with the same dir and prev_prob_val as the first
TwinPast == [mean_sample_num |-> 7, num_sample_runs |-> 3, max_val_actual |-> 20]

InitTwin ==
  /\ InitWith(Configs)
  /\ twin = [pos |-> pos, dir |-> dir, prev_prob_val |-> prev_prob_val,
             mean_sample_num |-> TwinPast.mean_sample_num,
             num_sample_runs |-> TwinPast.num_sample_runs,
             max_val_actual |-> TwinPast.max_val_actual,
             ret |-> FALSE]
  /\ NoWarp

\* ------------------------------------------------------------------ init
\* the tests of lines 84-85 and of lines 95-96 on the amplitude of a direction
SeedOk(x) == ~isnan(x) /\ Gt(x, S.init_threshold)
\* lines 95-96 without the test against init_threshold
FixedOkAnyAmplitude(x) == finite(x)

FixedOk(x) == finite(x) /\ Gt(x, S.init_threshold)

\* line 80 with <= for <
InitBudgetPlusOne == S.max_trials + 1

InitBudget == S.max_trials

\* init() of the propagator p when the loop of lines 80-90 makes j draws that
\* fail the test and then (j < max_trials) draws d: the return statement
\* taken, and dir and prev_prob_val when it returns
InitCall(p, j, d) ==
  LET values == get_data(S, p.pos)
      Result(l, nd, np) ==
        [line |-> l, ret |-> l \in {87, 98}, dir |-> nd, prev_prob_val |-> np]
  IN IF ~values.ok THEN Result(77, p.dir, p.prev_prob_val)
     ELSE IF S.init_dir = NoDir
     THEN LET x == FODdir(values, d)
          IN IF j < InitBudget /\ SeedOk(x)
             THEN Result(87, d, pow(x, S.num_samples))
             ELSE IF j = 0 THEN Result(103, p.dir, p.prev_prob_val)
             ELSE Result(103, d, p.prev_prob_val)
     ELSE LET x == FODdir(values, S.init_dir)
          IN IF FixedOk(x)
             THEN Result(98, S.init_dir, pow(x, S.num_samples))
             ELSE Result(103, S.init_dir, p.prev_prob_val)

\* the second propagator after the same init()
TwinInit(j, d) ==
  IF twin = NoTwin THEN twin
  ELSE LET r == InitCall(twin, j, d)
       IN [twin EXCEPT !.dir = r.dir, !.prev_prob_val = r.prev_prob_val,
                       !.ret = r.ret]

\* init().  The loop of lines 80-90 runs as: j draws that fail the test (each
\* a direction like e), then (j < max_trials) a draw d that passes it, or
\* (j = max_trials) no more, d being the last of the j.
init ==
  /\ call = "none"
  /\ call' = "init"
  /\ UNCHANGED << S, pos, mean_sample_num, num_sample_runs, probes,
                  max_val_actual, max_val, nmax, n, val, written >>
  /\ UNCHANGED warp_vars
  /\ LET values == get_data(S, pos)
         Return(l, j, d, nd, ed, ne) ==
           \E r \in { InitCall(Self, j, d) } :
              /\ r.line = l
              /\ ret' = r.ret
              /\ line' = r.line
              /\ terminated' = (terminated \/ ~r.ret)
              /\ dir' = r.dir
              /\ prev_prob_val' = r.prev_prob_val
              /\ draws' = nd
              /\ earlier' = ed
              /\ fod_evals' = ne
              /\ twin' = TwinInit(j, d)
     IN IF ~values.ok THEN Return(77, 0, East, 0, NoDir, 0)
        ELSE IF S.init_dir = NoDir
        THEN \E j \in 0..InitBudget, d \in UnitDirs, e \in UnitDirs :
               LET x == FODdir(values, d)
                   before == IF j < InitBudget THEN j ELSE j - 1
               IN /\ IF before > 0 THEN ~SeedOk(FODdir(values, e)) ELSE e = East
                  /\ IF j < InitBudget
                     THEN /\ SeedOk(x)
                          /\ Return(87, j, d, j + 1,
                                    IF before > 0 THEN e ELSE NoDir, j + 1)
                     ELSE IF j = 0
                     THEN d = East /\ Return(103, j, d, 0, NoDir, 0)
                     ELSE /\ ~SeedOk(x)
                          /\ Return(103, j, d, j,
                                    IF before > 0 THEN e ELSE NoDir, j)
        ELSE \E l \in {98, 103} : Return(l, 0, East, 0, NoDir, 1)

\* ------------------------------------------------------------------ next
\* lines 113-114: if (val > max_val_actual) max_val_actual = val
ProbeUpdate(mva, v) == IF Gt(v, mva) THEN v ELSE mva

\* the loop of lines 110-115 over the paths drawn, max_val_actual = 0.0 first
RECURSIVE ProbeLoop(_, _)
ProbeLoop(vals, mva) ==
  IF vals = {} THEN mva
  ELSE LET v == CHOOSE w \in vals : TRUE
       IN ProbeLoop(vals \ {v}, ProbeUpdate(mva, v))

\* line 116: MAX (prev_prob_val, max_val_actual)
Envelope(prev, mva) == MAX(prev, mva)

\* line 117 assigning max_val in place of max_val_actual
NextPrevProbEnvelope(mva, envelope) == envelope

\* line 117: what prev_prob_val is set to
NextPrevProb(mva, envelope) == mva

\* line 119 placed after line 121
EnvelopeFailsMultiplied(envelope) ==
  \/ ~finite(TimesOneAndHalf(envelope))
  \/ Lt(TimesOneAndHalf(envelope), S.prob_threshold)

\* line 119: the step fails before the loop of lines 125-141
EnvelopeFails(envelope) == isnan(envelope) \/ Lt(envelope, S.prob_threshold)

\* line 123 with >= for >
TrialBudgetAtLeast(mva) ==
  IF ~isnan(mva) /\ mva >= S.prob_threshold THEN ExtendedTrials ELSE S.max_trials

\* line 123
TrialBudget(mva) ==
  IF Gt(mva, S.prob_threshold) THEN ExtendedTrials ELSE S.max_trials

\* the values of rng.uniform(), in units of 1/UniformDen
Uniforms == 0..(UniformDen - 1)

\* line 132 without the test of line 128
AcceptsAnyVal(c, u, envelope) == UniformLess(u, c.val, envelope)

\* lines 128 and 132: the path c is accepted on the uniform draw u/UniformDen
Accepts(c, u, envelope) ==
  Gt(c.val, S.prob_threshold) /\ UniformLess(u, c.val, envelope)

\* some uniform draw makes a pass of the loop reject the path c
Rejects(c, envelope) == \E u \in Uniforms : ~Accepts(c, u, envelope)

\* the numbers of rejected passes of the loop of lines 125-141 told apart:
\* up to MaxRejected of them, and all of the budget
Rejections(budget) == { j \in (0..MaxRejected) \cup {budget} : j <= budget }

MaxOf(set) == CHOOSE m \in set : \A x \in set : x <= m

\* line 110 without its initialiser: max_val_actual starts from what the
\* stack slot holds
ProbeStartUninitialised(stale) == stale

\* line 110: value_type max_val_actual = 0.0, whatever the stack slot held
ProbeStart(stale) == 0

\* the outcomes of the loop of lines 111-115 when the draws of rand_dir that
\* occur among its ProbeCount paths are D and the stack slot of
\* max_val_actual held stale: max_val_actual, and the most elements one of
\* its get_path calls wrote into an array
Probe(paths, D, stale) ==
  [mva     |-> ProbeLoop({ paths[k].val : k \in D }, ProbeStart(stale)),
   written |-> MaxOf({ paths[k].written : k \in D })]

ProbeDraws == { D \in SUBSET Turns : D # {} /\ Cardinality(D) <= ProbeCount }

\* line 135 placed before the test of line 132
NewPosAlways(accepted, cur_pos, next_pos) == next_pos

\* lines 133-135 stand in the branch that accepts: pos and dir are written
\* from the locals next_pos and next_dir there and nowhere else
NewPos(accepted, cur_pos, next_pos) == IF accepted THEN next_pos ELSE cur_pos
NewDir(accepted, cur_dir, next_dir) == IF accepted THEN next_dir ELSE cur_dir

\* line 136 placed before the test of line 132
NewMeanAlways(accepted, mean, j) == mean + j

\* lines 136-137
NewMean(accepted, mean, j) == IF accepted THEN mean + j ELSE mean
NewRuns(accepted, runs) == IF accepted THEN runs + 1 ELSE runs

\* next() of the propagator p, its paths per draw of rand_dir being paths and
\* its first loop giving probe, when the loop of lines 125-141 makes j passes
\* that reject their path and then (j < nmax) a pass on the path of the draw
\* a: the return statement taken, the members and the locals when it returns.
\* When the call returns false the locals next_pos and next_dir hold the end
\* of a path, here that of the draw a.
NextCall(p, paths, probe, j, a) ==
  LET mva == probe.mva
      envelope == Envelope(p.prev_prob_val, mva)
      budget == TrialBudget(mva)
      e == TimesOneAndHalf(envelope)
      l == IF EnvelopeFails(envelope) THEN 120
           ELSE IF j < budget /\ \E u \in Uniforms : Accepts(paths[a], u, e)
           THEN 138 ELSE 143
  IN [line            |-> l,
      ret             |-> l = 138,
      pos             |-> NewPos(l = 138, p.pos, paths[a].next_pos),
      dir             |-> NewDir(l = 138, p.dir, paths[a].new_dir),
      prev_prob_val   |-> NextPrevProb(mva, envelope),
      mean_sample_num |-> NewMean(l = 138, p.mean_sample_num, j),
      num_sample_runs |-> NewRuns(l = 138, p.num_sample_runs),
      max_val_actual  |-> mva,
      max_val         |-> IF l = 120 THEN envelope ELSE e,
      nmax            |-> IF l = 120 THEN 0 ELSE budget,
      n               |-> IF l = 120 THEN 0 ELSE IF l = 138 THEN j + 1 ELSE budget,
      val             |-> IF l = 138 THEN paths[a].val ELSE NaN,
      written         |-> probe.written]

\* the second propagator after the same next()
TwinNext(r) ==
  IF twin = NoTwin THEN twin
  ELSE [pos |-> r.pos, dir |-> r.dir, prev_prob_val |-> r.prev_prob_val,
        mean_sample_num |-> r.mean_sample_num,
        num_sample_runs |-> r.num_sample_runs,
        max_val_actual |-> r.max_val_actual, ret |-> r.ret]

\* the paths of the propagator p per draw of rand_dir
PathsOf(p) == [k \in Turns |-> Candidate(S, p.pos, p.dir, k)]

\* next().  The loop of lines 125-141 runs as: j passes that reject their
\* path, then (j < nmax) a pass that accepts the path of the draw a, or
\* (j = nmax) no more.
next ==
  /\ call # "none"
  /\ num_sample_runs < MaxSteps
  /\ call' = "next"
  /\ UNCHANGED S
  /\ UNCHANGED warp_vars
  /\ draws' = 0
  /\ earlier' = NoDir
  /\ fod_evals' = 0
  /\ probes' = ProbeCount
  /\ \E paths \in { PathsOf(Self) } :
     \E tpaths \in { IF twin = NoTwin THEN paths ELSE PathsOf(twin) } :
     \E both \in { << Probe(paths, D, max_val_actual),
                      Probe(tpaths, D, IF twin = NoTwin THEN max_val_actual
                                       ELSE twin.max_val_actual) >> :
                   D \in ProbeDraws } :
       LET probe == both[1]
           budget == TrialBudget(probe.mva)
           e == TimesOneAndHalf(Envelope(prev_prob_val, probe.mva))
           Return(l, a, j) ==
             \E r \in { NextCall(Self, paths, probe, j, a) } :
                /\ r.line = l
                /\ ret' = r.ret
                /\ line' = r.line
                /\ terminated' = (terminated \/ ~r.ret)
                /\ pos' = r.pos
                /\ dir' = r.dir
                /\ prev_prob_val' = r.prev_prob_val
                /\ mean_sample_num' = r.mean_sample_num
                /\ num_sample_runs' = r.num_sample_runs
                /\ max_val_actual' = r.max_val_actual
                /\ max_val' = r.max_val
                /\ nmax' = r.nmax
                /\ n' = r.n
                /\ val' = r.val
                /\ written' = r.written
                /\ twin' = TwinNext(NextCall(twin, tpaths, both[2], j, a))
       IN IF EnvelopeFails(Envelope(prev_prob_val, probe.mva))
          THEN Return(120, 0, 0)
          ELSE \E j \in Rejections(budget) :
                 /\ j > 0 => \E k \in Turns : Rejects(paths[k], e)
                 /\ IF j < budget
                    THEN \E a \in Turns : Return(138, a, j)
                    ELSE Return(143, 0, j)

Next == init \/ next

Spec == Init /\ [][Next]_vars
SpecFlat == InitFlat /\ [][Next]_vars
SpecTwin == InitTwin /\ [][Next]_vars

\* ------------------------------------------------------------ warpcorrect
\* A warp image has MaxVoxels voxels of three components each.  A component
\* is an integer or NaN.
Voxels == 1 .. MaxVoxels
Axes == 1 .. 3

\* the vectors of the input image and the out-of-bounds markers of the runs
Vectors == { << 0, 0, 0 >>, << 1, 0, 0 >>, << 0, NaN, 0 >>, << NaN, NaN, NaN >> }
Markers == { << 0, 0, 0 >>, << NaN, 0, 0 >> }

\* -tolerance: 0 stands for any value below DummyPrecisionInv times the
\* spacing of the components that is not told apart from it by the test of
\* line 64 (the default 1e-5 among them); 1 is one spacing
Precisions == { 0, 1, DummyPrecisionInv }

Unwritten == << >>

\* float subtraction, NaN propagating
Minus(x, y) == IF isnan(x) \/ isnan(y) THEN NaN ELSE x - y

\* Eigen  v.hasNaN()
hasNaN(v) == \E i \in Axes : isnan(v[i])

\* Eigen  (vec - val).cwiseAbs2().sum()
cwiseAbs2Sum(vec, value) ==
  IF \E i \in Axes : isnan(Minus(vec[i], value[i]))
  THEN NaN
  ELSE LET d(i) == vec[i] - value[i]
       IN d(1) * d(1) + d(2) * d(2) + d(3) * d(3)

\* Eigen  x.isMuchSmallerThan(other), other a scalar:
\*   x.cwiseAbs2().sum() <= abs2(dummy_precision * other)
\* with x given by its sum of squares.  The quotient is exact for the
\* multiples of DummyPrecisionInv; below DummyPrecisionInv the right-hand
\* side is below one squared spacing and a sum of squares is at most it
\* exactly when it is 0.  A NaN sum compares false.
isMuchSmallerThan(sumsq, other) ==
  /\ ~isnan(sumsq)
  /\ sumsq <= (other \div DummyPrecisionInv) * (other \div DummyPrecisionInv)

\* the condition of line 64
OutOfBounds(vec, value, precision) ==
  \/ isMuchSmallerThan(cwiseAbs2Sum(vec, value), precision)
  \/ (hasNaN(vec) /\ hasNaN(value))

\* BoundsCheck::BoundsCheck: count (0)
BoundsCheck == [count |-> 0, alive |-> "yes", run |-> "no"]

\* the implicit copy constructor, for the copy a thread runs
Copy(f) == [count |-> f.count, alive |-> "yes", run |-> "running"]

\* BoundsCheck::operator() of the object f on the voxel value: the object
\* after the call, the vector written to out, and whether lines 65-67 ran
Call(f, value) ==
  IF OutOfBounds(warp.oob_vector, value, warp.precision)
  THEN [f |-> [f EXCEPT !.count = @ + 1], out |-> << NaN, NaN, NaN >>,
        oob |-> TRUE]
  ELSE [f |-> f, out |-> << value[1], value[2], value[3] >>, oob |-> FALSE]

\* ~BoundsCheck: counter += count
AccumulateAssign(counter, own) == own
Accumulate(counter, own) == counter + own

Threads == 1 .. warp.nthreads

\* no tractography in a run of warpcorrect
NoPropagator ==
  /\ S = [num_samples |-> 0]
  /\ pos = NoDir
  /\ dir = NoDir
  /\ prev_prob_val = 0
  /\ mean_sample_num = 0
  /\ num_sample_runs = 0
  /\ call = "none"
  /\ ret = FALSE
  /\ line = 0
  /\ terminated = FALSE
  /\ draws = 0
  /\ earlier = NoDir
  /\ fod_evals = 0
  /\ probes = 0
  /\ max_val_actual = 0
  /\ max_val = 0
  /\ nmax = 0
  /\ n = 0
  /\ val = NaN
  /\ written = 0
  /\ twin = NoTwin

\* run() before line 109: the images are open, the options are read
InitWarp ==
  /\ NoPropagator
  /\ warp \in [input : [Voxels -> Vectors], oob_vector : Markers,
               precision : Precisions, nthreads : 1 .. MaxThreads]
  /\ output = [v \in Voxels |-> Unwritten]
  /\ count = 0
  /\ functors = << >>
  /\ todo = Voxels
  /\ visits = [v \in Voxels |-> 0]
  /\ replaced = {}
  /\ loaded = 0
  /\ rpc = "start"
  /\ warned = FALSE

\* run() lines 109-113: count (0), func, and the ThreadedLoop starting its
\* threads, each with a copy of func.  func itself (object 0) is never
\* called; further copies that are never called hold count 0 to their end
\* and are left out.
launch ==
  /\ rpc = "start"
  /\ count' = 0
  /\ functors' = [c \in 0 .. warp.nthreads |->
                    IF c = 0 THEN BoundsCheck ELSE Copy(BoundsCheck)]
  /\ rpc' = "loop"
  /\ UNCHANGED << warp, output, todo, visits, replaced, loaded, warned >>
  /\ UNCHANGED prop_vars

\* a thread takes the next voxel of the loop and calls its copy on it
voxel ==
  /\ rpc = "loop"
  /\ \E t \in Threads, v \in todo :
       /\ functors[t].run = "running"
       /\ \E r \in { Call(functors[t], warp.input[v]) } :
            /\ functors' = [functors EXCEPT ![t] = r.f]
            /\ output' = [output EXCEPT ![v] = r.out]
            /\ replaced' = IF r.oob THEN replaced \cup {v} ELSE replaced
       /\ todo' = todo \ {v}
       /\ visits' = [visits EXCEPT ![v] = @ + 1]
  /\ UNCHANGED << warp, count, loaded, rpc, warned >>
  /\ UNCHANGED prop_vars

\* a thread finds the loop exhausted and ends; the last one to end lets the
\* launching thread past the join
finish ==
  /\ rpc = "loop"
  /\ todo = {}
  /\ \E t \in Threads :
       /\ functors[t].run = "running"
       /\ functors' = [functors EXCEPT ![t].run = "finished"]
       /\ rpc' = IF \A u \in Threads \ {t} : functors[u].run = "finished"
                 THEN "joined" ELSE "loop"
  /\ UNCHANGED << warp, output, count, todo, visits, replaced, loaded, warned >>
  /\ UNCHANGED prop_vars

\* the objects the launching thread may destroy now: the copies after the
\* join, func when run() returns
Destroyable(c) == IF c = 0 THEN rpc = "return" ELSE rpc = "joined"

\* ~BoundsCheck, the read of counter += count.  The copies are destroyed by
\* one thread, one after the other.
destroy_load ==
  /\ \A c \in DOMAIN functors : functors[c].alive # "dying"
  /\ \E c \in DOMAIN functors :
       /\ Destroyable(c)
       /\ functors[c].alive = "yes"
       /\ functors' = [functors EXCEPT ![c].alive = "dying"]
  /\ loaded' = count
  /\ UNCHANGED << warp, output, count, todo, visits, replaced, rpc, warned >>
  /\ UNCHANGED prop_vars

\* ~BoundsCheck, the write of counter += count
destroy_store ==
  /\ \E c \in DOMAIN functors :
       /\ functors[c].alive = "dying"
       /\ count' = Accumulate(loaded, functors[c].count)
       /\ functors' = [functors EXCEPT ![c].alive = "no"]
       /\ rpc' = IF c = 0 THEN "done"
                 ELSE IF \A u \in Threads \ {c} : functors[u].alive = "no"
                      THEN "report" ELSE rpc
  /\ UNCHANGED << warp, output, todo, visits, replaced, loaded, warned >>
  /\ UNCHANGED prop_vars

\* run() lines 115-118
report ==
  /\ rpc = "report"
  /\ warned' = (count = 0)
  /\ rpc' = "return"
  /\ UNCHANGED << warp, output, count, functors, todo, visits, replaced, loaded >>
  /\ UNCHANGED prop_vars

NextWarp ==
  launch \/ voxel \/ finish \/ destroy_load \/ destroy_store \/ report

SpecWarp == InitWarp /\ [][NextWarp]_vars

\* =================================================================== claims
\* the call that returned last was next() and it returned true
Accepted == call = "next" /\ ret

\* the propagator is seeded: init() returned true and no call returned false
Seeded == call # "none" /\ ~terminated

\* ---------------------------------------------------------------------- C1
\* C1: a next() that returns true accepted a path whose val is not NaN and
\* is strictly greater than prob_threshold = threshold^num_samples, whatever
\* the uniform draw and whatever max_val.
C1_AcceptedAboveThreshold ==
  Accepted => /\ ~isnan(val)
              /\ val > pow(S.threshold, S.num_samples)

\* a seeded propagator has accepted a path whose val is above the envelope
\* max_val, no write of get_path having changed a sample
C1_Witness ==
  Accepted /\ ~terminated /\ S.layout = "spare" /\ Gt(val, max_val)

\* ---------------------------------------------------------------------- C2
\* C2: get_path writes exactly num_samples elements into each array, in the
\* curved and in the straight case: after next(), the most elements a
\* get_path of its first loop wrote is num_samples.
C2_ExactlyNumSamples == call = "next" => written = S.num_samples

\* ---------------------------------------------------------------------- C3
\* C3 as stated: a next() of a seeded propagator returns false before its
\* second loop (line 120) exactly when 1.5 * MAX(prev_prob_val,
\* max_val_actual) is not finite or is below prob_threshold.
C3_CheckOnMultiplied ==
  [][(Seeded /\ call' = "next") =>
       LET m == TimesOneAndHalf(MAX(prev_prob_val, max_val_actual'))
       IN (line' = 120) <=> (~finite(m) \/ Lt(m, S.prob_threshold))]_vars

\* C3 amended: next() returns false at line 120 exactly when
\* MAX(prev_prob_val, max_val_actual), not yet multiplied, is NaN or below
\* prob_threshold; otherwise max_val is 1.5 times that maximum in the second
\* loop.
C3_CheckBeforeMultiplying ==
  [][call' = "next" =>
       LET m == MAX(prev_prob_val, max_val_actual')
       IN /\ (line' = 120) <=> (isnan(m) \/ Lt(m, S.prob_threshold))
          /\ line' = 120 => max_val' = m
          /\ line' # 120 => max_val' = TimesOneAndHalf(m)]_vars

\* next() has returned at line 120 on a maximum that is below prob_threshold
\* but at least prob_threshold / 1.5
C3_Witness ==
  /\ call = "next" /\ line = 120
  /\ Lt(max_val, S.prob_threshold)
  /\ ~Lt(TimesOneAndHalf(max_val), S.prob_threshold)

\* ---------------------------------------------------------------------- C4
\* C4 as stated: after a next() that returns true, prev_prob_val is the val
\* of the path it accepted.
C4_PrevIsAcceptedVal == Accepted => prev_prob_val = val

\* C4 amended: after every next(), prev_prob_val is max_val_actual, the
\* maximum over the paths of its first loop, and the max_val of a next()
\* that follows and enters its second loop is 1.5 times the greater of that
\* maximum and of its own max_val_actual.
C4_PrevIsProbeMaximum ==
  [][call' = "next" =>
       /\ prev_prob_val' = max_val_actual'
       /\ (call = "next" /\ line' # 120) =>
            max_val' = TimesOneAndHalf(MAX(max_val_actual, max_val_actual'))]_vars

\* a second step has been accepted, its val being another value than the
\* prev_prob_val the call left
C4_Witness == Accepted /\ num_sample_runs >= 2 /\ prev_prob_val # val

\* ---------------------------------------------------------------------- C5
\* C5 as stated: once init() or next() has returned false, no later next()
\* returns true or changes pos or dir.
C5_TerminatedAbsorbing ==
  [][(terminated /\ call' = "next") =>
       (~ret' /\ pos' = pos /\ dir' = dir)]_vars

\* C5 amended: once init() or next() has returned false, a later next()
\* that returns false again changes neither pos nor dir (one that returns
\* true may move the propagator: next() itself keeps no terminated state).
C5_FailedCallKeepsPlace ==
  [][(terminated /\ call' = "next" /\ ~ret') =>
       (pos' = pos /\ dir' = dir)]_vars

\* a next() has returned true after an earlier call returned false
C5_Witness == terminated /\ Accepted

\* ---------------------------------------------------------------------- C6
\* C6: a next() evaluates exactly 100 paths in its first loop and then at
\* most 10000 paths in its second loop when max_val_actual > prob_threshold,
\* at most max_trials otherwise; when it has used all of them without
\* accepting one it returns false.
C6_BoundedEvaluations ==
  call = "next" =>
    LET budget == IF Gt(max_val_actual, S.prob_threshold)
                  THEN 10000 ELSE S.max_trials
    IN /\ probes = 100
       /\ n <= budget
       /\ line # 120 => nmax = budget
       /\ line = 120 => n = 0
       /\ (line = 143) => (n = budget /\ ~ret)
       /\ (~ret /\ line # 120) => n = budget

\* next() has returned false after 10000 rejected paths
C6_Witness == call = "next" /\ line = 143 /\ n = 10000 /\ ~ret

\* ---------------------------------------------------------------------- C7
\* the product of the entries i..Len(amps) of amps
RECURSIVE ProductFrom(_, _)
ProductFrom(amps, i) ==
  IF i > Len(amps) THEN 1 ELSE amps[i] * ProductFrom(amps, i + 1)

\* the samples rand_path_prob reads for the draw k from the current state,
\* and their amplitudes
SamplesOf(k) == Buffers(S, get_path(S, pos, dir, k))
AmplitudesOf(k) ==
  LET b == SamplesOf(k)
  IN [i \in 1..S.num_samples |-> FOD(S, b.positions[i], b.tangents[i])]
SomeBelow(k) ==
  \E i \in 1..S.num_samples :
    AmplitudesOf(k)[i] = NaN \/ AmplitudesOf(k)[i] < S.threshold

\* C7: from every state of a run, for every draw of rand_dir, rand_path_prob
\* returns NaN when one of its num_samples samples has an amplitude that is
\* NaN or below threshold; otherwise it returns the product of the
\* num_samples amplitudes, and next_pos and next_dir are the position and
\* the tangent of the sample of index num_samples - 1.
C7_PathProbability ==
  call # "none" =>
    \A k \in Turns :
      LET r == rand_path_prob(S, pos, dir, k)
      IN IF SomeBelow(k) THEN r.val = NaN
         ELSE /\ r.val = ProductFrom(AmplitudesOf(k), 1)
              /\ r.next_pos = SamplesOf(k).positions[S.num_samples]
              /\ r.next_dir = SamplesOf(k).tangents[S.num_samples]

\* a state from which one draw gives a product of two amplitudes and another
\* draw gives NaN
C7_Witness ==
  /\ call # "none" /\ S.num_samples = 2
  /\ \E k \in Turns : ~SomeBelow(k) /\ AmplitudesOf(k)[1] # AmplitudesOf(k)[2]
  /\ \E k \in Turns : SomeBelow(k)

\* ---------------------------------------------------------------------- C8
\* C8 as stated (flat field of amplitude 1.0, num_samples = 1, max_trials =
\* 100): every next() of a seeded propagator returns true on the first or
\* the second pass of its second loop.
C8_AcceptsWithinTwo ==
  [][(Seeded /\ call' = "next") => (ret' /\ n' <= 2)]_vars

\* C8 amended: every next() of a seeded propagator finds max_val_actual =
\* 1.0, passes line 119 with max_val = 1.5 and nmax = 10000, and either
\* accepts a path of val 1.0 and stays seeded, on whichever pass first draws a
\* uniform below 1/1.5, or returns false after 10000 passes.
C8_AcceptsOrExhausts ==
  [][(Seeded /\ call' = "next") =>
       /\ max_val_actual' = 10 /\ max_val' = 15 /\ nmax' = 10000
       /\ line' # 120
       /\ IF ret' THEN val' = 10 /\ n' <= 10000 /\ ~terminated'
          ELSE n' = 10000]_vars

\* in the flat field a next() has returned false after 10000 passes
C8_Witness ==
  /\ S.field = "flat" /\ S.num_samples = 1 /\ S.max_trials = 100
  /\ call = "next" /\ line = 143 /\ n = 10000 /\ max_val = 15

\* ---------------------------------------------------------------------- C9
\* the amplitude of the field at the seed point in the configured direction
\* (NaN when the seed point has no data)
SeedAmplitude == FOD(S, pos, S.init_dir)

\* C9: with a fixed initial direction, init() draws no random direction,
\* evaluates the amplitude of that direction once (the data of the seed point
\* are fetched once and the series is evaluated once, unless there are no
\* data and the amplitude is undefined), and returns true exactly when the
\* amplitude is finite and greater than init_threshold; otherwise it returns
\* false, no trial having been made.
C9_FixedDirection ==
  (call = "init" /\ S.init_dir # NoDir) =>
    /\ draws = 0
    /\ fod_evals <= 1
    /\ (fod_evals = 0) <=> ~get_data(S, pos).ok
    /\ ret <=> (SeedAmplitude # NaN /\ SeedAmplitude # Inf
                /\ SeedAmplitude > S.init_threshold)
    /\ ret => (dir = S.init_dir /\ ~terminated)
    /\ ~ret => terminated

\* init() has returned false on a fixed direction whose amplitude is defined
\* and not above init_threshold
C9_Witness ==
  /\ call = "init" /\ S.init_dir # NoDir /\ ~ret
  /\ fod_evals = 1 /\ SeedAmplitude # NaN /\ SeedAmplitude <= S.init_threshold

\* --------------------------------------------------------------------- C10
\* the amplitude at the seed point of the direction d is defined and above
\* init_threshold
Qualifies(d) ==
  LET x == FOD(S, pos, d) IN x # NaN /\ x > S.init_threshold

\* C10: without a fixed initial direction, init() draws at most max_trials
\* directions, none of the draws before the last qualifying; when it returns
\* true the last draw qualifies, is the current direction, and prev_prob_val
\* is its amplitude to the power num_samples; it returns false exactly when
\* the seed point has no data or max_trials draws were made and none
\* qualified.
C10_RandomDirection ==
  (call = "init" /\ S.init_dir = NoDir) =>
    /\ draws <= S.max_trials
    /\ fod_evals = draws
    /\ earlier # NoDir => (draws >= 2 /\ ~Qualifies(earlier))
    /\ ret => /\ draws >= 1
              /\ Qualifies(dir)
              /\ prev_prob_val = pow(FOD(S, pos, dir), S.num_samples)
              /\ ~terminated
    /\ ~ret => /\ terminated
               /\ \/ ~get_data(S, pos).ok /\ draws = 0
                  \/ draws = S.max_trials /\ ~Qualifies(dir)

\* init() has returned true on its last permitted draw, after a draw that did
\* not qualify
C10_Witness ==
  /\ call = "init" /\ S.init_dir = NoDir /\ ret
  /\ draws = S.max_trials /\ earlier # NoDir


\* --------------------------------------------------------------------- C11
\* C11: two propagators that start with the same pos, dir and prev_prob_val
\* under the same Shared and field, and are given the same calls with the same
\* random draws, agree after every init() and next() on what the call
\* returned and on pos, dir and prev_prob_val, whatever their counters and
\* their stacks held before.
C11_Determinism ==
  (twin # NoTwin /\ call # "none") =>
    /\ twin.ret = ret
    /\ twin.pos = pos
    /\ twin.dir = dir
    /\ twin.prev_prob_val = prev_prob_val

\* both propagators have accepted a second step and stand at the same place
\* away from the seed point, with other counters
C11_Witness ==
  /\ twin # NoTwin /\ Accepted /\ num_sample_runs = 2 /\ twin.ret
  /\ twin.pos = pos /\ pos \notin Seeds
  /\ twin.num_sample_runs # num_sample_runs
  /\ twin.mean_sample_num # mean_sample_num

\* --------------------------------------------------------------------- C12
\* the distance between vec and value is at most the tolerance: the sum of
\* the squared differences is at most the tolerance squared
WithinTolerance(vec, value, tolerance) ==
  /\ ~isnan(cwiseAbs2Sum(vec, value))
  /\ \E k \in 0 .. cwiseAbs2Sum(vec, value) :
       k * k >= cwiseAbs2Sum(vec, value) /\ k <= tolerance

\* C12: operator() writes (NaN, NaN, NaN) to a voxel exactly when its input
\* vector matches the marker within the tolerance or both the marker and the
\* input contain a NaN; otherwise the three components are copied unchanged;
\* every voxel is processed once.
C12_NaNWithinTolerance ==
  /\ \A v \in Voxels :
       visits[v] > 0 =>
         /\ v \in replaced <=>
              \/ WithinTolerance(warp.oob_vector, warp.input[v], warp.precision)
              \/ (hasNaN(warp.oob_vector) /\ hasNaN(warp.input[v]))
         /\ v \in replaced => output[v] = << NaN, NaN, NaN >>
         /\ v \notin replaced => output[v] = warp.input[v]
  /\ rpc = "done" => \A v \in Voxels : visits[v] = 1

\* --------------------------------------------------------------------- C13
\* C13: a next() that returns false, at line 120 or at line 143, leaves pos,
\* dir, mean_sample_num and num_sample_runs as they were before the call, and
\* a next() changes the two counters only when it returns true.
C13_FailedCallFrame ==
  [][call' = "next" =>
       /\ ~ret' => /\ pos' = pos
                   /\ dir' = dir
                   /\ mean_sample_num' = mean_sample_num
                   /\ num_sample_runs' = num_sample_runs
       /\ (mean_sample_num' # mean_sample_num
           \/ num_sample_runs' # num_sample_runs) => ret']_vars

\* a propagator that had advanced, after a rejected path, has used all of
\* nmax passes and returned false at line 143
C13_Witness ==
  /\ call = "next" /\ ~ret /\ line = 143 /\ n = nmax /\ n > 0
  /\ num_sample_runs >= 1 /\ mean_sample_num >= 1

\* --------------------------------------------------------------------- C14
RECURSIVE Pending(_)
\* the counts held by the objects in cs that are not destroyed yet
Pending(cs) ==
  IF cs = {} THEN 0
  ELSE LET c == CHOOSE x \in cs : TRUE
       IN (IF functors[c].alive = "no" THEN 0 ELSE functors[c].count)
          + Pending(cs \ {c})

====
